---------------------------- MODULE Spec2Model ----------------------------
(***************************************************************************)
(* Raspberry Pi 7" touchscreen panel driver                                *)
(* (drivers/gpu/drm/panel/panel-raspberrypi-touchscreen.c).                *)
(*                                                                         *)
(* The state is struct rpi_touchscreen (prepared, enabled, backlight,      *)
(* bridge_i2c), the collaborators it touches (the backlight's props, the   *)
(* connector's display_info, the drm panel list, the bridge device's       *)
(* reference count) and, for the last call made into the driver, its name, *)
(* its return value and the calls it issued to its collaborators.          *)
(***************************************************************************)
EXTENDS Integers, Sequences, FiniteSets

VARIABLES
    prepared,               \* ts->prepared
    enabled,                \* ts->enabled
    backlight,              \* ts->backlight: NULL or the backlight device
    props,                  \* the backlight device's props
    bridge_i2c,             \* ts->bridge_i2c: "NULL", "ERR_PTR" or "client"
    bound,                  \* probe returned 0 and no remove has returned 0 since
    registered,             \* panels this driver has on the drm panel list
    bridge_refs,            \* references this driver holds on the bridge device
    oops,                   \* an invalid pointer was dereferenced and the kernel faulted
    rpi_touchscreen_modes,  \* the static mode table
    display_info,           \* connector->display_info
    op,                     \* the last call made into the driver
    ret,                    \* the last call's return value
    calls                   \* the calls the last call issued, in order

vars == <<prepared, enabled, backlight, props, bridge_i2c, bound, registered,
          bridge_refs, oops, rpi_touchscreen_modes, display_info,
          op, ret, calls>>

ts == <<prepared, enabled, backlight, props, bridge_i2c>>
dev == <<bound, registered, bridge_refs, oops>>

---------------------------------------------------------------------------
(* Bounds of the model *)

\* largest brightness the backlight takes (RPI_TOUCHSCREEN_MAX_BRIGHTNESS is
\* used at line 284 and defined nowhere)
MaxBrightness == 2
\* longest mode table
MaxModes == 3
\* most panels / bridge references the driver may have outstanding
MaxHeld == 1

---------------------------------------------------------------------------
(* Constants of the program *)

NULL == "NULL"

FB_BLANK_UNBLANK == 0
FB_BLANK_NORMAL == 1
FB_BLANK_VSYNC_SUSPEND == 2
FB_BLANK_HSYNC_SUSPEND == 3
FB_BLANK_POWERDOWN == 4

BL_CORE_SUSPENDED == 1
BL_CORE_FBBLANK == 2
\* a state bit the driver does not look at
BL_CORE_DRIVER4 == 268435456

ENOMEM == 12
ENODEV == 19
ENOSYS == 38
EPROBE_DEFER == 517

DRM_MODE_TYPE_DRIVER == "DRIVER"
DRM_MODE_TYPE_PREFERRED == "PREFERRED"

\* The table's entry at C index i. Entry 0 is the source's; the table of the
\* source has that entry only, and a longer table's later entries are the same
\* timing at a lower refresh rate.
rpi_touchscreen_mode(i) ==
    [clock |-> 83333,
     hdisplay |-> 800, hsync_start |-> 800 + 61, hsync_end |-> 800 + 61 + 2,
     htotal |-> 800 + 61 + 2 + 44,
     vdisplay |-> 480, vsync_start |-> 480 + 7, vsync_end |-> 480 + 7 + 2,
     vtotal |-> 480 + 7 + 2 + 21,
     vrefresh |-> 60 - i,
     type |-> {},
     name |-> <<>>]

\* ARRAY_SIZE(rpi_touchscreen_modes)
ARRAY_SIZE(table) == Len(table)

---------------------------------------------------------------------------
(* Helpers *)

RECURSIVE BitAnd(_, _)
\* a & b on naturals
BitAnd(a, b) ==
    IF a = 0 \/ b = 0 THEN 0
    ELSE (a % 2) * (b % 2) + 2 * BitAnd(a \div 2, b \div 2)

\* The values the backlight core may hold in props.power and props.state
PowerValues == {FB_BLANK_UNBLANK, FB_BLANK_NORMAL, FB_BLANK_VSYNC_SUSPEND,
                FB_BLANK_HSYNC_SUSPEND, FB_BLANK_POWERDOWN}
StateValues == {0, BL_CORE_SUSPENDED, BL_CORE_FBBLANK,
                BL_CORE_SUSPENDED + BL_CORE_FBBLANK, BL_CORE_DRIVER4}

\* The calls of the last operation to function fn
CallsTo(fn) == SelectSeq(calls, LAMBDA c : c.fn = fn)

---------------------------------------------------------------------------
(* The backlight *)

\* Mutant: the update looks at the power field only
rpi_touchscreen_backlight_update_power_only(bl) ==
    IF bl.power # FB_BLANK_UNBLANK
    THEN 0
    ELSE bl.brightness

\* rpi_touchscreen_backlight_update: the value of its local brightness when
\* it returns (the function itself returns 0 and writes nothing)
rpi_touchscreen_backlight_update(bl) ==
    IF bl.power # FB_BLANK_UNBLANK
       \/ BitAnd(bl.state, BL_CORE_SUSPENDED + BL_CORE_FBBLANK) # 0
    THEN 0
    ELSE bl.brightness

\* backlight_update_status(bl): calls ops->update_status, recorded with the
\* brightness it computed
backlight_update_status(bl) ==
    [fn |-> "backlight_update_status",
     brightness |-> rpi_touchscreen_backlight_update(bl)]

---------------------------------------------------------------------------
(* The calls *)

\* What every call records: its name, its return value and the calls it
\* issued
Return(name, r, issued) ==
    /\ op' = name
    /\ ret' = r
    /\ calls' = issued

\* The panel funcs are called by the DSI host the panel is attached to
Callable == bound /\ ~oops

\* Mutant: disable clears the wrong flag
rpi_touchscreen_disable_clears_prepared ==
    /\ Callable
    /\ IF ~enabled
       THEN /\ Return("disable", 0, <<>>)
            /\ UNCHANGED <<ts, dev, rpi_touchscreen_modes, display_info>>
       ELSE /\ IF backlight # NULL
               THEN LET bl == [props EXCEPT !.power = FB_BLANK_POWERDOWN]
                    IN  /\ props' = bl
                        /\ Return("disable", 0, <<backlight_update_status(bl)>>)
               ELSE /\ props' = props
                    /\ Return("disable", 0, <<>>)
            /\ prepared' = FALSE
            /\ UNCHANGED <<enabled, backlight, bridge_i2c, dev,
                           rpi_touchscreen_modes, display_info>>

\* Mutant: disable blanks the backlight instead of powering it down
rpi_touchscreen_disable_blank_normal ==
    /\ Callable
    /\ IF ~enabled
       THEN /\ Return("disable", 0, <<>>)
            /\ UNCHANGED <<ts, dev, rpi_touchscreen_modes, display_info>>
       ELSE /\ IF backlight # NULL
               THEN LET bl == [props EXCEPT !.power = FB_BLANK_NORMAL]
                    IN  /\ props' = bl
                        /\ Return("disable", 0, <<backlight_update_status(bl)>>)
               ELSE /\ props' = props
                    /\ Return("disable", 0, <<>>)
            /\ enabled' = FALSE
            /\ UNCHANGED <<prepared, backlight, bridge_i2c, dev,
                           rpi_touchscreen_modes, display_info>>

\* Mutant: disable refreshes the backlight before it writes the power field
rpi_touchscreen_disable_refresh_first ==
    /\ Callable
    /\ IF ~enabled
       THEN /\ Return("disable", 0, <<>>)
            /\ UNCHANGED <<ts, dev, rpi_touchscreen_modes, display_info>>
       ELSE /\ IF backlight # NULL
               THEN /\ Return("disable", 0, <<backlight_update_status(props)>>)
                    /\ props' = [props EXCEPT !.power = FB_BLANK_POWERDOWN]
               ELSE /\ props' = props
                    /\ Return("disable", 0, <<>>)
            /\ enabled' = FALSE
            /\ UNCHANGED <<prepared, backlight, bridge_i2c, dev,
                           rpi_touchscreen_modes, display_info>>

\* Mutant: disable forgets the backlight
rpi_touchscreen_disable_keeps_power ==
    /\ Callable
    /\ IF ~enabled
       THEN /\ Return("disable", 0, <<>>)
            /\ UNCHANGED <<ts, dev, rpi_touchscreen_modes, display_info>>
       ELSE /\ Return("disable", 0, <<>>)
            /\ enabled' = FALSE
            /\ UNCHANGED <<prepared, backlight, props, bridge_i2c, dev,
                           rpi_touchscreen_modes, display_info>>

rpi_touchscreen_disable ==
    /\ Callable
    /\ IF ~enabled
       THEN /\ Return("disable", 0, <<>>)
            /\ UNCHANGED <<ts, dev, rpi_touchscreen_modes, display_info>>
       ELSE /\ IF backlight # NULL
               THEN LET bl == [props EXCEPT !.power = FB_BLANK_POWERDOWN]
                    IN  /\ props' = bl
                        /\ Return("disable", 0, <<backlight_update_status(bl)>>)
               ELSE /\ props' = props
                    /\ Return("disable", 0, <<>>)
            /\ enabled' = FALSE
            /\ UNCHANGED <<prepared, backlight, bridge_i2c, dev, rpi_touchscreen_modes,
                           display_info>>

\* Mutant: unprepare with its test inverted
rpi_touchscreen_unprepare_inverted_test ==
    /\ Callable
    /\ IF prepared
       THEN UNCHANGED prepared
       ELSE prepared' = FALSE
    /\ Return("unprepare", 0, <<>>)
    /\ UNCHANGED <<enabled, backlight, props, bridge_i2c, dev,
                   rpi_touchscreen_modes, display_info>>

\* Mutant: unprepare also disables the panel
rpi_touchscreen_unprepare_disables ==
    /\ Callable
    /\ IF ~prepared
       THEN UNCHANGED <<prepared, enabled>>
       ELSE prepared' = FALSE /\ enabled' = FALSE
    /\ Return("unprepare", 0, <<>>)
    /\ UNCHANGED <<backlight, props, bridge_i2c, dev, rpi_touchscreen_modes,
                   display_info>>

rpi_touchscreen_unprepare ==
    /\ Callable
    /\ IF ~prepared
       THEN UNCHANGED prepared
       ELSE prepared' = FALSE
    /\ Return("unprepare", 0, <<>>)
    /\ UNCHANGED <<enabled, backlight, props, bridge_i2c, dev, rpi_touchscreen_modes,
                   display_info>>

\* Mutant: prepare reports a panel that is already prepared as an error
rpi_touchscreen_prepare_twice_is_error ==
    /\ Callable
    /\ IF prepared
       THEN /\ UNCHANGED prepared
            /\ Return("prepare", -ENODEV, <<>>)
       ELSE /\ prepared' = TRUE
            /\ Return("prepare", 0, <<>>)
    /\ UNCHANGED <<enabled, backlight, props, bridge_i2c, dev,
                   rpi_touchscreen_modes, display_info>>

rpi_touchscreen_prepare ==
    /\ Callable
    /\ IF prepared
       THEN UNCHANGED prepared
       ELSE prepared' = TRUE
    /\ Return("prepare", 0, <<>>)
    /\ UNCHANGED <<enabled, backlight, props, bridge_i2c, dev, rpi_touchscreen_modes,
                   display_info>>

\* Mutant: enable without its early return
rpi_touchscreen_enable_no_early_return ==
    /\ Callable
    /\ IF backlight # NULL
       THEN LET bl == [props EXCEPT !.power = FB_BLANK_UNBLANK]
            IN  /\ props' = bl
                /\ Return("enable", 0, <<backlight_update_status(bl)>>)
       ELSE /\ props' = props
            /\ Return("enable", 0, <<>>)
    /\ enabled' = TRUE
    /\ UNCHANGED <<prepared, backlight, bridge_i2c, dev, rpi_touchscreen_modes,
                   display_info>>

\* Mutant: enable refreshes the backlight before it writes the power field
rpi_touchscreen_enable_refresh_first ==
    /\ Callable
    /\ IF enabled
       THEN /\ Return("enable", 0, <<>>)
            /\ UNCHANGED <<ts, dev, rpi_touchscreen_modes, display_info>>
       ELSE /\ IF backlight # NULL
               THEN /\ Return("enable", 0, <<backlight_update_status(props)>>)
                    /\ props' = [props EXCEPT !.power = FB_BLANK_UNBLANK]
               ELSE /\ props' = props
                    /\ Return("enable", 0, <<>>)
            /\ enabled' = TRUE
            /\ UNCHANGED <<prepared, backlight, bridge_i2c, dev,
                           rpi_touchscreen_modes, display_info>>

\* Mutant: the refresh stores the brightness it computed in the props
rpi_touchscreen_enable_stores_brightness ==
    /\ Callable
    /\ IF enabled
       THEN /\ Return("enable", 0, <<>>)
            /\ UNCHANGED <<ts, dev, rpi_touchscreen_modes, display_info>>
       ELSE /\ IF backlight # NULL
               THEN LET bl == [props EXCEPT !.power = FB_BLANK_UNBLANK]
                    IN  /\ props' = [bl EXCEPT !.brightness =
                                        rpi_touchscreen_backlight_update(bl)]
                        /\ Return("enable", 0, <<backlight_update_status(bl)>>)
               ELSE /\ props' = props
                    /\ Return("enable", 0, <<>>)
            /\ enabled' = TRUE
            /\ UNCHANGED <<prepared, backlight, bridge_i2c, dev,
                           rpi_touchscreen_modes, display_info>>

rpi_touchscreen_enable ==
    /\ Callable
    /\ IF enabled
       THEN /\ Return("enable", 0, <<>>)
            /\ UNCHANGED <<ts, dev, rpi_touchscreen_modes, display_info>>
       ELSE /\ IF backlight # NULL
               THEN LET bl == [props EXCEPT !.power = FB_BLANK_UNBLANK]
                    IN  /\ props' = bl
                        /\ Return("enable", 0, <<backlight_update_status(bl)>>)
               ELSE /\ props' = props
                    /\ Return("enable", 0, <<>>)
            /\ enabled' = TRUE
            /\ UNCHANGED <<prepared, backlight, bridge_i2c, dev, rpi_touchscreen_modes,
                           display_info>>

---------------------------------------------------------------------------
(* Mode enumeration *)

RECURSIVE get_modes_loop_break(_, _, _, _, _)
\* Mutant: the loop stops at the first entry whose duplication fails
get_modes_loop_break(table, dup_ok, i, num, issued) ==
    IF ~(i < ARRAY_SIZE(table)) THEN [num |-> num, issued |-> issued]
    ELSE
        LET m == table[i + 1]
            dup == [fn |-> "drm_mode_duplicate", i |-> i, ok |-> i \in dup_ok]
        IN  IF i \notin dup_ok
            THEN [num |-> num, issued |-> Append(issued, dup)]
            ELSE
                LET typed == [m EXCEPT !.type = @ \cup {DRM_MODE_TYPE_DRIVER}]
                    pref == IF i = 0
                            THEN [typed EXCEPT
                                    !.type = @ \cup {DRM_MODE_TYPE_PREFERRED}]
                            ELSE typed
                    named == [pref EXCEPT !.name = <<pref.hdisplay, pref.vdisplay>>]
                    add == [fn |-> "drm_mode_probed_add", mode |-> named]
                IN  get_modes_loop_break(table, dup_ok, i + 1, num + 1,
                                         issued \o <<dup, add>>)

RECURSIVE get_modes_loop_first_added(_, _, _, _, _)
\* Mutant: the first mode produced is the preferred one (num == 0 for i == 0)
get_modes_loop_first_added(table, dup_ok, i, num, issued) ==
    IF ~(i < ARRAY_SIZE(table)) THEN [num |-> num, issued |-> issued]
    ELSE
        LET m == table[i + 1]
            dup == [fn |-> "drm_mode_duplicate", i |-> i, ok |-> i \in dup_ok]
        IN  IF i \notin dup_ok
            THEN get_modes_loop_first_added(table, dup_ok, i + 1, num,
                                            Append(issued, dup))
            ELSE
                LET typed == [m EXCEPT !.type = @ \cup {DRM_MODE_TYPE_DRIVER}]
                    pref == IF num = 0
                            THEN [typed EXCEPT
                                    !.type = @ \cup {DRM_MODE_TYPE_PREFERRED}]
                            ELSE typed
                    named == [pref EXCEPT !.name = <<pref.hdisplay, pref.vdisplay>>]
                    add == [fn |-> "drm_mode_probed_add", mode |-> named]
                IN  get_modes_loop_first_added(table, dup_ok, i + 1, num + 1,
                                               issued \o <<dup, add>>)

RECURSIVE get_modes_loop(_, _, _, _, _)
\* The loop of rpi_touchscreen_get_modes from C index i on: dup_ok is the set
\* of indexes whose drm_mode_duplicate succeeds; the result is the final num
\* and the calls issued
get_modes_loop(table, dup_ok, i, num, issued) ==
    IF ~(i < ARRAY_SIZE(table)) THEN [num |-> num, issued |-> issued]
    ELSE
        LET m == table[i + 1]
            dup == [fn |-> "drm_mode_duplicate", i |-> i, ok |-> i \in dup_ok]
        IN  IF i \notin dup_ok
            THEN get_modes_loop(table, dup_ok, i + 1, num, Append(issued, dup))
            ELSE
                LET typed == [m EXCEPT !.type = @ \cup {DRM_MODE_TYPE_DRIVER}]
                    pref == IF i = 0
                            THEN [typed EXCEPT
                                    !.type = @ \cup {DRM_MODE_TYPE_PREFERRED}]
                            ELSE typed
                    named == [pref EXCEPT !.name = <<pref.hdisplay, pref.vdisplay>>]
                    add == [fn |-> "drm_mode_probed_add", mode |-> named]
                IN  get_modes_loop(table, dup_ok, i + 1, num + 1,
                                   issued \o <<dup, add>>)

\* Mutant: the display info is written only when a mode was produced
rpi_touchscreen_get_modes_info_if_any ==
    /\ Callable
    /\ \E dup_ok \in SUBSET (0 .. ARRAY_SIZE(rpi_touchscreen_modes) - 1) :
          LET r == get_modes_loop(rpi_touchscreen_modes, dup_ok, 0, 0, <<>>)
          IN  /\ display_info' =
                    IF r.num > 0
                    THEN [bpc |-> 8, width_mm |-> 217, height_mm |-> 136]
                    ELSE display_info
              /\ Return("get_modes", r.num, r.issued)
    /\ UNCHANGED <<ts, dev, rpi_touchscreen_modes>>

\* Mutant: asking for the modes prepares the panel
rpi_touchscreen_get_modes_prepares ==
    /\ Callable
    /\ \E dup_ok \in SUBSET (0 .. ARRAY_SIZE(rpi_touchscreen_modes) - 1) :
          LET r == get_modes_loop(rpi_touchscreen_modes, dup_ok, 0, 0, <<>>)
          IN  /\ display_info' = [bpc |-> 8, width_mm |-> 217, height_mm |-> 136]
              /\ Return("get_modes", r.num, r.issued)
    /\ prepared' = TRUE
    /\ UNCHANGED <<enabled, backlight, props, bridge_i2c, dev,
                   rpi_touchscreen_modes>>

rpi_touchscreen_get_modes ==
    /\ Callable
    /\ \E dup_ok \in SUBSET (0 .. ARRAY_SIZE(rpi_touchscreen_modes) - 1) :
          LET r == get_modes_loop(rpi_touchscreen_modes, dup_ok, 0, 0, <<>>)
          IN  /\ display_info' = [bpc |-> 8, width_mm |-> 217, height_mm |-> 136]
              /\ Return("get_modes", r.num, r.issued)
    /\ UNCHANGED <<ts, dev, rpi_touchscreen_modes>>

\* The backlight core changes one of the device's props (a sysfs store, a
\* suspend or resume, a framebuffer blank event) and calls update_status
backlight_props_change ==
    /\ Callable
    /\ backlight # NULL
    /\ \E bl \in {[props EXCEPT !.power = p] : p \in PowerValues}
             \cup {[props EXCEPT !.brightness = b] : b \in 0 .. MaxBrightness}
             \cup {[props EXCEPT !.state = s] : s \in StateValues} :
          /\ props' = bl
          /\ Return("backlight", 0, <<backlight_update_status(bl)>>)
    /\ UNCHANGED <<prepared, enabled, backlight, bridge_i2c, dev, rpi_touchscreen_modes,
                   display_info>>

\* The same, for a backlight whose power field only the driver writes: the
\* core changes the brightness or a state flag and calls update_status
backlight_brightness_or_state_change ==
    /\ Callable
    /\ backlight # NULL
    /\ \E bl \in {[props EXCEPT !.brightness = b] : b \in 0 .. MaxBrightness}
             \cup {[props EXCEPT !.state = s] : s \in StateValues} :
          /\ props' = bl
          /\ Return("backlight", 0, <<backlight_update_status(bl)>>)
    /\ UNCHANGED <<prepared, enabled, backlight, bridge_i2c, dev,
                   rpi_touchscreen_modes, display_info>>

---------------------------------------------------------------------------
(* Construction and teardown *)

\* rpi_touchscreen_get_i2c: node is whether the phandle resolves to a node,
\* client whether an i2c device is registered for that node
rpi_touchscreen_get_i2c(node, client) ==
    IF ~node THEN "ERR_PTR"
    ELSE IF client THEN "client" ELSE NULL

\* put_device(&ts->bridge_i2c->dev) on pointer b, the driver holding refs
\* references: drops the reference of a device; on ERR_PTR(-ENODEV) it
\* dereferences an invalid address, which faults or goes unnoticed
put_device(b, refs) ==
    IF b = "client"
    THEN /\ bridge_refs' = refs - 1
         /\ oops' = oops
    ELSE /\ bridge_refs' = refs
         /\ oops' \in BOOLEAN

\* The props of a backlight device registered with no props given, as the
\* registration the source compiles out (lines 273-286) leaves them
registered_props == [power |-> 0, brightness |-> MaxBrightness, state |-> 0]
no_props == [power |-> 0, brightness |-> 0, state |-> 0]

rpi_touchscreen_dsi_probe ==
    /\ ~bound /\ ~oops
    /\ registered < MaxHeld /\ bridge_refs < MaxHeld
    /\ \E alloc, node, client, with_bl \in BOOLEAN :
       \E add_ret \in {0, -ENOMEM}, attach_ret \in {0, -ENOSYS} :
          IF ~alloc
          THEN /\ Return("probe", -ENOMEM, <<>>)
               /\ UNCHANGED <<ts, dev, rpi_touchscreen_modes, display_info>>
          ELSE
            LET b == rpi_touchscreen_get_i2c(node, client)
                lookup == [fn |-> "rpi_touchscreen_get_i2c", result |-> b]
                add == [fn |-> "drm_panel_add", ret |-> add_ret]
                attach == [fn |-> "mipi_dsi_attach", ret |-> attach_ret]
                put == [fn |-> "put_device", ptr |-> b]
                held == IF b = "client" THEN bridge_refs + 1 ELSE bridge_refs
            IN  /\ prepared' = FALSE
                /\ enabled' = FALSE
                /\ bridge_i2c' = b
                /\ UNCHANGED <<rpi_touchscreen_modes, display_info>>
                /\ IF b = NULL
                   THEN /\ Return("probe", -EPROBE_DEFER, <<lookup>>)
                        /\ backlight' = NULL
                        /\ props' = no_props
                        /\ UNCHANGED dev
                   ELSE
                     /\ backlight' = IF with_bl THEN "bl" ELSE NULL
                     /\ props' = IF with_bl THEN registered_props ELSE no_props
                     /\ IF add_ret < 0
                        THEN /\ Return("probe", add_ret, <<lookup, add, put>>)
                             /\ put_device(b, held)
                             /\ UNCHANGED <<bound, registered>>
                        ELSE /\ Return("probe", attach_ret, <<lookup, add, attach>>)
                             /\ registered' = registered + 1
                             /\ bridge_refs' = held
                             /\ bound' = (attach_ret = 0)
                             /\ oops' = oops

rpi_touchscreen_dsi_remove ==
    /\ bound /\ ~oops
    /\ \E detach_ret \in {0, -ENOSYS} :
          LET detach == [fn |-> "mipi_dsi_detach", ret |-> detach_ret]
          IN  IF detach_ret < 0
              THEN /\ Return("remove", detach_ret, <<detach>>)
                   /\ UNCHANGED <<ts, dev, rpi_touchscreen_modes, display_info>>
              ELSE /\ Return("remove", 0,
                             <<detach, [fn |-> "drm_panel_detach"],
                               [fn |-> "drm_panel_remove"],
                               [fn |-> "put_device", ptr |-> bridge_i2c]>>)
                   /\ registered' = registered - 1
                   /\ put_device(bridge_i2c, bridge_refs)
                   /\ bound' = FALSE
                   /\ UNCHANGED <<ts, rpi_touchscreen_modes, display_info>>

---------------------------------------------------------------------------
(* The specification *)

\* Before the device is probed: no rpi_touchscreen exists, the connector's
\* display_info is zeroed, and the mode table is the constant it stays
Init ==
    /\ prepared = FALSE
    /\ enabled = FALSE
    /\ backlight = NULL
    /\ props = no_props
    /\ bridge_i2c = NULL
    /\ bound = FALSE
    /\ registered = 0
    /\ bridge_refs = 0
    /\ oops = FALSE
    /\ \E n \in 1 .. MaxModes :
          rpi_touchscreen_modes = [k \in 1 .. n |-> rpi_touchscreen_mode(k - 1)]
    /\ display_info = [bpc |-> 0, width_mm |-> 0, height_mm |-> 0]
    /\ op = "none"
    /\ ret = 0
    /\ calls = <<>>

Next ==
    \/ rpi_touchscreen_dsi_probe
    \/ rpi_touchscreen_dsi_remove
    \/ rpi_touchscreen_prepare
    \/ rpi_touchscreen_enable
    \/ rpi_touchscreen_disable
    \/ rpi_touchscreen_unprepare
    \/ rpi_touchscreen_get_modes
    \/ backlight_props_change

Spec == Init /\ [][Next]_vars

\* The driver with a backlight whose power field nobody else writes
NextOwnPower ==
    \/ rpi_touchscreen_dsi_probe
    \/ rpi_touchscreen_dsi_remove
    \/ rpi_touchscreen_prepare
    \/ rpi_touchscreen_enable
    \/ rpi_touchscreen_disable
    \/ rpi_touchscreen_unprepare
    \/ rpi_touchscreen_get_modes
    \/ backlight_brightness_or_state_change

SpecOwnPower == Init /\ [][NextOwnPower]_vars

---------------------------------------------------------------------------
(* The claims *)

\* C1 as stated: after every call, in any order of the calls, enabled = true
\* implies prepared = true.
C1_EnabledImpliesPrepared == enabled => prepared

\* C1 as amended: a call keeps "enabled implies prepared" unless it is an
\* Enable made while prepared = false or an Unprepare made while enabled =
\* true; so the invariant holds after every call of a sequence in which Enable
\* is called only on a prepared panel and Unprepare only on a disabled one.
C1_OrderedCallsKeepInvariant ==
    [][((enabled => prepared)
        /\ ~(op' = "enable" /\ ~prepared)
        /\ ~(op' = "unprepare" /\ enabled))
       => (enabled' => prepared')]_vars

\* Enable has taken effect on a prepared panel
C1_Witness ==
    op = "enable" /\ enabled /\ prepared /\ backlight # NULL /\ calls # <<>>

\* The call just made changed nothing and issued nothing
NoOp ==
    /\ ret' = 0
    /\ prepared' = prepared
    /\ enabled' = enabled
    /\ backlight' = backlight
    /\ props' = props
    /\ calls' = <<>>

\* C2: Prepare, Enable, Disable and Unprepare called in their target state
\* return 0, leave prepared, enabled and the backlight's power unchanged and
\* issue no backlight status refresh, whatever the backlight's power is.
C2_Idempotent ==
    [][/\ (op' = "prepare" /\ prepared) => NoOp
       /\ (op' = "enable" /\ enabled) => NoOp
       /\ (op' = "disable" /\ ~enabled) => NoOp
       /\ (op' = "unprepare" /\ ~prepared) => NoOp]_vars

\* Enable returned on an enabled panel whose backlight someone else had
\* switched off: the power is still off and no refresh was issued
C2_Witness ==
    /\ op = "enable" /\ enabled /\ backlight # NULL
    /\ props.power # FB_BLANK_UNBLANK
    /\ calls = <<>>

\* C3: with a backlight attached, Enable followed immediately by Disable
\* leaves enabled = false and the backlight's power at FB_BLANK_POWERDOWN.
C3_EnableThenDisable ==
    [][(op = "enable" /\ op' = "disable" /\ backlight # NULL)
       => (enabled' = FALSE /\ props'.power = FB_BLANK_POWERDOWN)]_vars

\* Disable has powered the backlight of an enabled panel down
C3_Witness ==
    /\ op = "disable" /\ backlight # NULL /\ ~enabled
    /\ props.power = FB_BLANK_POWERDOWN
    /\ Len(CallsTo("backlight_update_status")) = 1

\* The calls to drm_mode_duplicate and to drm_mode_probed_add of the last call
Dups == CallsTo("drm_mode_duplicate")
Adds == CallsTo("drm_mode_probed_add")

\* C4: GetSupportedModes attempts every entry of the mode table, in order,
\* adds exactly the entries whose duplication succeeded and returns their
\* number; a failed entry stops nothing.
C4_EveryEntryAttempted ==
    op = "get_modes" =>
        /\ Len(Dups) = Len(rpi_touchscreen_modes)
        /\ \A k \in 1 .. Len(Dups) : Dups[k].i = k - 1
        /\ ret = Cardinality({k \in 1 .. Len(Dups) : Dups[k].ok})
        /\ Len(Adds) = ret
        /\ \A k \in 1 .. Len(Dups) :
              Dups[k].ok <=>
                  \E j \in 1 .. Len(Adds) :
                      Adds[j].mode.vrefresh = rpi_touchscreen_modes[k].vrefresh

\* A three-entry table whose second entry failed: the third was attempted and
\* added, and the count is 2
C4_Witness ==
    /\ op = "get_modes"
    /\ Len(rpi_touchscreen_modes) = 3
    /\ Len(Dups) = 3 /\ Dups[1].ok /\ ~Dups[2].ok /\ Dups[3].ok
    /\ ret = 2
    /\ Adds[2].mode.vrefresh = rpi_touchscreen_modes[3].vrefresh

\* The bridge lookup of the last probe, if it made one
Lookup == CallsTo("rpi_touchscreen_get_i2c")

\* C5: a construction whose bridge lookup does not resolve to a device (the
\* reference missing, or no device registered for it) fails with
\* -EPROBE_DEFER and does not register the panel.
C5_UnresolvedLookupDefers ==
    (op = "probe" /\ Lookup # <<>> /\ Lookup[1].result # "client")
        => (ret = -EPROBE_DEFER /\ CallsTo("drm_panel_add") = <<>>)

\* The refreshes the last call asked the backlight for
Refreshes == CallsTo("backlight_update_status")
suspended == props.state % 2 = 1
blanked == (props.state \div 2) % 2 = 1

\* C6: the backlight status recompute yields 0 when the power field is not
\* "on" or the suspended or the blanked flag is set, and the requested
\* brightness otherwise.
C6_EffectiveBrightness ==
    \A k \in 1 .. Len(Refreshes) :
        Refreshes[k].brightness =
            IF props.power = FB_BLANK_UNBLANK /\ ~suspended /\ ~blanked
            THEN props.brightness
            ELSE 0

\* A recompute with the power on, a positive brightness and the suspended
\* flag set gave 0
C6_Witness ==
    /\ Refreshes # <<>>
    /\ props.power = FB_BLANK_UNBLANK
    /\ props.brightness > 0
    /\ props.state = BL_CORE_SUSPENDED
    /\ Refreshes[1].brightness = 0

\* C7: a panel whose construction succeeded has prepared = false and enabled
\* = false, and Disable followed by Unprepare leaves prepared = false and
\* enabled = false from every state.
C7_BackToDisabled ==
    [][/\ (op' = "probe" /\ ret' = 0) => (~prepared' /\ ~enabled')
       /\ (op = "disable" /\ op' = "unprepare") => (~prepared' /\ ~enabled')]_vars

\* Unprepare has brought a bound panel to Disabled
C7_Witness ==
    bound /\ op = "unprepare" /\ ~prepared /\ ~enabled

\* C8: every call of GetSupportedModes leaves the display info at bpc = 8,
\* 217 mm by 136 mm, whatever the number of modes produced; on a one-entry
\* table with no failure the count is 1.
C8_DisplayInfo ==
    op = "get_modes" =>
        /\ display_info = [bpc |-> 8, width_mm |-> 217, height_mm |-> 136]
        /\ (Len(rpi_touchscreen_modes) = 1 /\ Dups[1].ok) => ret = 1

\* Every duplication failed and the display info is set all the same
C8_Witness ==
    /\ op = "get_modes" /\ ret = 0 /\ Adds = <<>>
    /\ display_info = [bpc |-> 8, width_mm |-> 217, height_mm |-> 136]

\* C9: Prepare, Enable, Disable and Unprepare return 0 in every state, with
\* or without a backlight.
C9_AlwaysSuccess ==
    op \in {"prepare", "enable", "disable", "unprepare"} => ret = 0

\* Prepare returned 0 on a panel that was enabled but not prepared, with no
\* backlight
C9_Witness ==
    /\ op = "prepare" /\ ret = 0
    /\ prepared /\ enabled /\ backlight = NULL

\* C10: Enable on a panel that is not enabled sets enabled and leaves
\* prepared as it is, whatever it is; with a backlight it writes the power
\* field "on" and then asks for one refresh, without one it asks for none.
C10_EnableEffect ==
    [][(op' = "enable" /\ ~enabled) =>
          /\ enabled'
          /\ prepared' = prepared
          /\ backlight' = backlight
          /\ IF backlight # NULL
             THEN /\ props' = [props EXCEPT !.power = FB_BLANK_UNBLANK]
                  /\ Len(calls') = 1
                  /\ calls'[1].fn = "backlight_update_status"
                  /\ calls'[1].brightness =
                        rpi_touchscreen_backlight_update(props')
             ELSE /\ props' = props
                  /\ calls' = <<>>]_vars

\* Enable has switched the backlight of an unprepared panel on
C10_Witness ==
    /\ op = "enable" /\ enabled /\ ~prepared /\ backlight # NULL
    /\ props.power = FB_BLANK_UNBLANK /\ props.brightness > 0
    /\ Len(calls) = 1 /\ calls[1].brightness = props.brightness

\* C11: Disable on an enabled panel clears enabled and leaves prepared as it
\* is; with a backlight it writes the power field FB_BLANK_POWERDOWN and then
\* asks for one refresh, without one it asks for none.
C11_DisableEffect ==
    [][(op' = "disable" /\ enabled) =>
          /\ ~enabled'
          /\ prepared' = prepared
          /\ backlight' = backlight
          /\ IF backlight # NULL
             THEN /\ props' = [props EXCEPT !.power = FB_BLANK_POWERDOWN]
                  /\ Len(calls') = 1
                  /\ calls'[1].fn = "backlight_update_status"
                  /\ calls'[1].brightness = 0
             ELSE /\ props' = props
                  /\ calls' = <<>>]_vars

\* Disable has powered down a backlight that was on at a positive brightness
\* with no flag set; the refresh that followed the write computed 0
C11_Witness ==
    /\ op = "disable" /\ ~enabled /\ prepared /\ backlight # NULL
    /\ props.power = FB_BLANK_POWERDOWN
    /\ props.brightness > 0 /\ props.state = 0
    /\ Len(calls) = 1 /\ calls[1].brightness = 0

\* C12: Prepare and Unprepare leave enabled, the backlight and its props as
\* they are and ask for no refresh, in every state.
C12_PrepareFrame ==
    [][(op' \in {"prepare", "unprepare"}) =>
          /\ enabled' = enabled
          /\ backlight' = backlight
          /\ props' = props
          /\ calls' = <<>>
          /\ prepared' = (op' = "prepare")]_vars

\* Unprepare has run on an enabled panel whose backlight is on, and both are
\* as they were
C12_Witness ==
    /\ op = "unprepare" /\ ~prepared /\ enabled /\ backlight # NULL
    /\ props.power = FB_BLANK_UNBLANK /\ props.brightness > 0
    /\ calls = <<>>

\* The backlight is on exactly when the panel is enabled
InLockstep == (props.power = FB_BLANK_UNBLANK) <=> enabled

\* C13: with a backlight whose power field only the driver writes, an enabled
\* panel's backlight is on in every state; and Enable leaves the backlight on
\* exactly when the panel is enabled, which every later call on that panel
\* keeps.
C13_Lockstep ==
    /\ []((backlight # NULL /\ enabled) => props.power = FB_BLANK_UNBLANK)
    /\ [][/\ (op' = "enable" /\ backlight' # NULL) => InLockstep'
          /\ (backlight # NULL /\ InLockstep /\ op' # "probe") => InLockstep']_vars

\* After an Enable, Disable has switched the backlight off with the panel
C13_Witness ==
    /\ op = "disable" /\ backlight # NULL
    /\ ~enabled /\ props.power = FB_BLANK_POWERDOWN
    /\ calls # <<>>

\* The timing of a produced mode: the mode without what the driver set on it
Timing(mode) == [mode EXCEPT !.type = {}, !.name = <<>>]

\* C14: every mode GetSupportedModes produces is flagged driver-supplied, and
\* is flagged preferred exactly when it is the copy of table entry 0; so at
\* most one is preferred, and none when the duplication of entry 0 failed.
C14_ModeFlags ==
    op = "get_modes" =>
        /\ \A j \in 1 .. Len(Adds) :
              /\ DRM_MODE_TYPE_DRIVER \in Adds[j].mode.type
              /\ (DRM_MODE_TYPE_PREFERRED \in Adds[j].mode.type)
                    <=> (Timing(Adds[j].mode) = rpi_touchscreen_modes[1])
        /\ Cardinality({j \in 1 .. Len(Adds) :
                          DRM_MODE_TYPE_PREFERRED \in Adds[j].mode.type}) <= 1
        /\ ~Dups[1].ok =>
              \A j \in 1 .. Len(Adds) :
                  DRM_MODE_TYPE_PREFERRED \notin Adds[j].mode.type

\* Entry 0 failed, two later entries were produced, and neither is preferred
C14_Witness ==
    /\ op = "get_modes" /\ ~Dups[1].ok /\ Len(Adds) = 2
    /\ \A j \in 1 .. 2 : Adds[j].mode.type = {DRM_MODE_TYPE_DRIVER}

\* C15: GetSupportedModes leaves prepared, enabled, the backlight, its props
\* and the mode table as they are and asks for no refresh, in every lifecycle
\* state; its count is the number of duplications that succeeded, whatever
\* the lifecycle state.
C15_GetModesFrame ==
    [][(op' = "get_modes") =>
          /\ prepared' = prepared
          /\ enabled' = enabled
          /\ backlight' = backlight
          /\ props' = props
          /\ rpi_touchscreen_modes' = rpi_touchscreen_modes
          /\ \A k \in 1 .. Len(calls') :
                calls'[k].fn # "backlight_update_status"
          /\ ret' = Cardinality({k \in 1 .. Len(calls') :
                                   calls'[k].fn = "drm_mode_probed_add"})]_vars

\* The modes were asked of an enabled panel whose backlight is on: all is as
\* it was and the full table came back
C15_Witness ==
    /\ op = "get_modes" /\ prepared /\ enabled /\ backlight # NULL
    /\ props.power = FB_BLANK_UNBLANK
    /\ ret = Len(rpi_touchscreen_modes) /\ ret > 1

\* C16: the driver holds a bridge reference exactly when the panel is bound,
\* and has the panel registered exactly when it is bound; after a
\* construction that returned an error it holds no reference and has no
\* panel registered.
C16_HeldIffBound ==
    /\ (bridge_refs > 0) <=> bound
    /\ (registered > 0) <=> bound
    /\ (op = "probe" /\ ret < 0) => (bridge_refs = 0 /\ registered = 0)

\* The names of the functions the last call called, in order
Called == [k \in 1 .. Len(calls) |-> calls[k].fn]

\* C17: teardown detaches first; when the detach fails it returns that error
\* and changes nothing; when it succeeds it deregisters the panel, then
\* releases the bridge reference, and returns 0.
C17_Teardown ==
    [][(op' = "remove") =>
          /\ calls'[1].fn = "mipi_dsi_detach"
          /\ IF calls'[1].ret < 0
             THEN /\ ret' = calls'[1].ret
                  /\ Len(calls') = 1
                  /\ UNCHANGED <<bound, registered, bridge_refs, oops>>
             ELSE /\ ret' = 0
                  /\ Called' = <<"mipi_dsi_detach", "drm_panel_detach",
                                 "drm_panel_remove", "put_device">>
                  /\ registered' = registered - 1
                  /\ bridge_refs' = bridge_refs - 1
                  /\ ~oops']_vars

\* C18: Prepare, Enable, Disable, Unprepare and GetSupportedModes leave the
\* backlight's brightness and state flags and the bridge device as they are;
\* of the props only power changes, and only to the value Enable or Disable
\* writes: a refresh writes nothing back.
C18_CollaboratorFrame ==
    [][(op' \in {"prepare", "enable", "disable", "unprepare", "get_modes"}) =>
          /\ props'.brightness = props.brightness
          /\ props'.state = props.state
          /\ bridge_i2c' = bridge_i2c
          /\ bridge_refs' = bridge_refs
          /\ props'.power # props.power =>
                \/ op' = "enable" /\ props'.power = FB_BLANK_UNBLANK
                \/ op' = "disable" /\ props'.power = FB_BLANK_POWERDOWN]_vars

\* Enable has run with the blanked flag set: its refresh computed 0, and the
\* brightness and the flag are as they were
C18_Witness ==
    /\ op = "enable" /\ backlight # NULL /\ bridge_i2c = "client"
    /\ props.state = BL_CORE_FBBLANK /\ props.brightness > 0
    /\ Len(calls) = 1 /\ calls[1].brightness = 0

====
